---- MODULE Spec2Model ----
(***************************************************************************)
(* A model of snafu-upgrade-assistant (src/src/main.rs): the convergence   *)
(* loop of main, and apply_once with its diagnostic collection and its     *)
(* reverse-order patcher.                                                   *)
(*                                                                         *)
(* Text is a sequence of one-byte strings (ASCII only, so every offset is  *)
(* a char boundary).  A path is its sequence of components, as             *)
(* std::path::Path::components yields them.                                *)
(***************************************************************************)
EXTENDS Integers, Sequences, FiniteSets, TLC

\* ------------------------------------------------------------------ bounds

\* The largest value of --max-iterations a run is started with.
MaxIterations == 1

\* The largest number of lines one `cargo check` prints.
MaxLines == 2

\* The largest number of tokens a patched file's text is made of.
MaxTokens == 2

\* The largest number of anchors one file gets when the patcher is checked
\* on its own.
MaxAnchors == 2

\* ------------------------------------------------------------------- text

Snafu == <<"S", "n", "a", "f", "u">>

ErrorMarker == <<"E", "r", "r", "o", "r">>

ContextMarker == <<"C", "o", "n", "t", "e", "x", "t">>

Placeholder == <<"_">>

Foo == <<"F", "o", "o">>

Pipes == <<"|", "|">>

\* Opts.verbose: an argh switch, off unless --verbose is given.  The model
\* is of runs without --verbose; the dbg! slices the switch guards are kept
\* in PatchAnchorStep as the code has them.
verbose == FALSE

\* Opts.suffix values a run is started with: the default and a legacy marker.
Suffixes == {Snafu, ErrorMarker}

Take(s, n) == SubSeq(s, 1, n)

Drop(s, n) == SubSeq(s, n + 1, Len(s))

\* str::ends_with
EndsWith(s, suf) ==
    /\ Len(suf) <= Len(s)
    /\ SubSeq(s, Len(s) - Len(suf) + 1, Len(s)) = suf

\* str::strip_suffix(m).unwrap_or(s)
StripSuffix(s, m) == IF EndsWith(s, m) THEN Take(s, Len(s) - Len(m)) ELSE s

\* The two strip_suffix calls in the other order.
StripLegacyContextFirst(head) ==
    StripSuffix(StripSuffix(head, ContextMarker), ErrorMarker)

\* The two strip_suffix calls of the rename arm, in the code's order.
StripLegacy(head) == StripSuffix(StripSuffix(head, ErrorMarker), ContextMarker)

RECURSIVE Concat(_)
Concat(ss) == IF ss = <<>> THEN <<>> ELSE Head(ss) \o Concat(Tail(ss))

RECURSIVE Reverse(_)
Reverse(s) == IF s = <<>> THEN <<>> ELSE Reverse(Tail(s)) \o <<Head(s)>>

\* The pieces joined without `.rev()`.
CollectForward(ps) == Concat(ps)

\* pieces.iter().copied().rev().collect()
CollectRev(ps) == Concat(Reverse(ps))

\* ------------------------------------------------------------- categories

Rename(s, e) == [kind |-> "ContextSelectorRename", start |-> s, end |-> e]

WithArg(s, e) == [kind |-> "WithContextArgument", start |-> s, end |-> e]

\* The closure argument split at its end, past both pipes.
SplitPointAtEnd(cat) == cat.end

\* Where an anchor splits the cursor: at its end for a rename, one byte
\* before it, between the two pipes, for a closure argument.
SplitPoint(cat) ==
    IF cat.kind = "ContextSelectorRename" THEN cat.end ELSE cat.end - 1

\* The check for an applied suffix left out.
AlreadyAppliedNever(head, suf) == FALSE

\* `if head.ends_with(&opts.suffix) { continue; }`
AlreadyApplied(head, suf) == EndsWith(head, suf)

\* One iteration of `for cat in spans.iter().copied().rev()`: the new cursor
\* and pieces, or a panic (split_at past the end of the cursor, `end - 1` at
\* end = 0, which overflows in a debug build and wraps to usize::MAX and then
\* fails split_at in a release build, or a dbg! slice shorter than 10 bytes).
PatchAnchorStep(cur, ps, cat, suf) ==
    LET mid == SplitPoint(cat)
    IN  IF mid < 0 \/ mid > Len(cur)
        THEN [panic |-> TRUE, content |-> cur, pieces |-> ps]
        ELSE LET head == Take(cur, mid)
                 tail == Drop(cur, mid)
             IN  IF verbose /\ (Len(head) < 10 \/ Len(tail) < 10)
                 THEN [panic |-> TRUE, content |-> cur, pieces |-> ps]
                 ELSE IF cat.kind = "ContextSelectorRename"
                      THEN IF AlreadyApplied(head, suf)
                           THEN [panic |-> FALSE, content |-> cur, pieces |-> ps]
                           ELSE [panic |-> FALSE,
                                 content |-> StripLegacy(head),
                                 pieces |-> ps \o <<tail, suf>>]
                      ELSE [panic |-> FALSE,
                            content |-> head,
                            pieces |-> ps \o <<tail, Placeholder>>]

\* ------------------------------------------------------------------ paths

\* The file names the build tool's spans carry, in the order of Rust's String
\* comparison ('.' < '/' < 'm'), which is the BTreeMap's iteration order.
FileOrder == <<"../evil.rs", "/dep/lib.rs", "main.rs">>

FileNames == {FileOrder[i] : i \in 1..Len(FileOrder)}

\* Path::components of a file name.
Components(f) ==
    CASE f = "../evil.rs" -> <<"..", "evil.rs">>
      [] f = "/dep/lib.rs" -> <<"/", "dep", "lib.rs">>
      [] f = "main.rs" -> <<"main.rs">>

\* What workspace_root() returns, and the default of Opts.directory.
WorkspaceRoot == <<"/", "ws">>

\* Path::join: an absolute argument replaces the base.
Join(base, p) == IF p # <<>> /\ Head(p) = "/" THEN p ELSE base \o p

\* Path::starts_with: whole components, compared as written (".." is a
\* component like any other).
StartsWith(p, base) ==
    /\ Len(base) <= Len(p)
    /\ Take(p, Len(base)) = base

\* The file the operating system opens for a path: each ".." steps to the
\* parent (the root is its own parent).
RECURSIVE Walk(_, _)
Walk(at, p) ==
    IF p = <<>> THEN at
    ELSE IF Head(p) = ".."
         THEN Walk(IF Len(at) > 1 THEN Take(at, Len(at) - 1) ELSE at, Tail(p))
         ELSE Walk(at \o <<Head(p)>>, Tail(p))

Resolve(p) == Walk(<<"/">>, Tail(p))

\* workspace_root.join(filename)
Joined(f) == Join(WorkspaceRoot, Components(f))

DiskFiles == {Resolve(Joined(f)) : f \in FileNames}

\* ------------------------------------------------- diagnostics, collection

RenameCodes == {"E0412", "E0422", "E0423", "E0425", "E0432", "E0574"}

ArgumentCodes == {"E0593"}

NoCode == "none"

\* Code::categorize ("None" for Option::None)
Categorize(code) ==
    IF code \in RenameCodes THEN "ContextSelectorRename"
    ELSE IF code \in ArgumentCodes THEN "WithContextArgument"
    ELSE "None"

Span(s, e, f, p) ==
    [byte_start |-> s, byte_end |-> e, file_name |-> f, is_primary |-> p]

CompilerMessage(code, spans) ==
    [reason |-> "compiler-message", code |-> code, spans |-> spans]

OtherLine == [reason |-> "other", code |-> NoCode, spans |-> <<>>]

\* A line serde_json::from_str rejects.
BadLine == [reason |-> "undecodable", code |-> NoCode, spans |-> <<>>]

\* The filter keeping the primary span for either category.
RelevantPrimaryOnly(kind, sp) == sp.is_primary

\* The filter of relevant_spans: primary spans for a rename, secondary ones
\* for a closure argument.
Relevant(kind, sp) ==
    IF kind = "ContextSelectorRename" THEN sp.is_primary ELSE ~sp.is_primary

\* The anchors one line contributes: none unless it is a compiler message
\* with a code that categorize() accepts.
LineSpans(l) ==
    IF l.reason = "compiler-message" /\ l.code # NoCode
          /\ Categorize(l.code) # "None"
    THEN {[kind |-> Categorize(l.code), span |-> l.spans[j]] :
             j \in {j \in 1..Len(l.spans) : Relevant(Categorize(l.code), l.spans[j])}}
    ELSE {}

\* relevant_spans.  The BTreeSet compares entries by their span alone; two
\* entries with equal spans have equal is_primary and so, by the filter, the
\* same category: a set of (kind, span) records holds what the BTreeSet holds.
RelevantSpans(lines) == UNION {LineSpans(lines[i]) : i \in 1..Len(lines)}

\* The fields compared in the order byte_end, byte_start, is_primary.
SpanLessEndFirst(a, b) ==
    \/ a.byte_end < b.byte_end
    \/ a.byte_end = b.byte_end /\ a.byte_start < b.byte_start
    \/ a.byte_start = b.byte_start /\ a.byte_end = b.byte_end
         /\ ~a.is_primary /\ b.is_primary

\* derive(Ord) on Span restricted to one file: (byte_start, byte_end,
\* is_primary), false before true.
SpanLess(a, b) ==
    \/ a.byte_start < b.byte_start
    \/ a.byte_start = b.byte_start /\ a.byte_end < b.byte_end
    \/ a.byte_start = b.byte_start /\ a.byte_end = b.byte_end
         /\ ~a.is_primary /\ b.is_primary

RECURSIVE SortSpans(_)
SortSpans(S) ==
    IF S = {} THEN <<>>
    ELSE LET m == CHOOSE x \in S : \A y \in S : x = y \/ SpanLess(x.span, y.span)
         IN  <<[kind |-> m.kind, start |-> m.span.byte_start,
                end |-> m.span.byte_end]>> \o SortSpans(S \ {m})

\* The FileMapping built from relevant_spans, iterated in order.
FileMappingOf(rel) ==
    [f \in {e.span.file_name : e \in rel} |->
        SortSpans({e \in rel : e.span.file_name = f})]

\* BTreeMap iteration order of a FileMapping's keys.
KeysInOrder(m) == SelectSeq(FileOrder, LAMBDA f : f \in DOMAIN m)

EmptyMapping == [f \in {} |-> <<>>]

\* ------------------------------------------------------------- build tool

\* The lines `cargo check --message-format json` may print in one cycle of a
\* whole run (messages whose code is in neither allow-list, or missing, are
\* among the collector's lines, CollectPool).
\* main.rs holds "FooError||" at the start: bytes 0..8 are the selector,
\* bytes 8..10 the empty closure argument list.
LinePool ==
    { CompilerMessage("E0425", <<Span(0, 8, "main.rs", TRUE)>>),
      CompilerMessage("E0593", <<Span(0, 3, "main.rs", TRUE),
                                 Span(8, 10, "main.rs", FALSE)>>),
      CompilerMessage("E0432", <<Span(0, 10, "../evil.rs", TRUE)>>),
      CompilerMessage("E0425", <<Span(0, 3, "/dep/lib.rs", TRUE)>>),
      OtherLine,
      BadLine }

Outputs == UNION {[1..n -> LinePool] : n \in 0..MaxLines}

\* The files on disk before the run.
InitialDisk ==
    [p \in DiskFiles |->
        IF p = Resolve(Joined("main.rs")) THEN Foo \o ErrorMarker \o Pipes
        ELSE Foo \o ContextMarker]

\* ------------------------------------------------------------------ state

VARIABLES
    dry_run,          \* Opts.dry_run
    max_iterations,   \* Opts.max_iterations
    directory,        \* Opts.directory
    suffix,           \* Opts.suffix
    pc,               \* where main is: "initial", "loop", "followup", "done"
    step,             \* where apply_once is: "check", "files", "anchors", "idle"
    depth,            \* main's depth
    last_fix,         \* main's last_fix
    outcome,          \* how the process ended, "running" until then
    stdout,           \* the lines the last cargo check printed, each as what
                      \* serde_json::from_str makes of it
    file_mapping,     \* apply_once's file_mapping
    todo,             \* the files `for (filename, spans)` has yet to visit
    original,         \* the String read_to_string returned for the current file
    content,          \* the cursor `content: &str`
    pieces,           \* pieces
    k,                \* anchors of the current file still to process
    modified_content, \* modified_content of the file patched last
    disk,             \* the bytes of each file on disk
    cycles,           \* how many times cargo check has been run
    plans,            \* the FileMappings apply_once has returned, in order
    io                \* the file reads and writes so far, in order

vars == <<dry_run, max_iterations, directory, suffix, pc, step, depth, last_fix,
          outcome, stdout, file_mapping, todo, original, content, pieces, k,
          modified_content, disk, cycles, plans, io>>

opts == <<dry_run, max_iterations, directory, suffix>>

main_vars == <<depth, last_fix>>

patch_vars == <<original, content, pieces, k, modified_content>>

Init ==
    /\ dry_run \in BOOLEAN
    /\ max_iterations \in 0..MaxIterations
    /\ directory = WorkspaceRoot
    /\ suffix = Snafu
    /\ pc = "initial"
    /\ step = "check"
    /\ depth = 0
    /\ last_fix = EmptyMapping
    /\ outcome = "running"
    /\ stdout = <<>>
    /\ file_mapping = EmptyMapping
    /\ todo = <<>>
    /\ original = <<>>
    /\ content = <<>>
    /\ pieces = <<>>
    /\ k = 0
    /\ modified_content = <<>>
    /\ disk = InitialDisk
    /\ cycles = 0
    /\ plans = <<>>
    /\ io = <<>>

\* `if !filename.starts_with(&opts.directory)`
InSafeDirectory(filename, dir) == StartsWith(filename, dir)

\* A dry run that writes all the same.
WritesFileAlways(dry) == TRUE

\* `if opts.dry_run { eprintln!(..) } else { fs::write(..)? }`
WritesFile(dry) == ~dry

\* The comparison of the two plans left out.
SameFixNever(last, current) == FALSE

\* `if last_fix == current_fix`: derive(PartialEq) on the map, its keys, and
\* each anchor's category and range.
SameFix(last, current) == last = current

\* The loop forgets to record the follow-up's plan.
NextLastFixStale(last, current) == last

\* `last_fix = current_fix`
NextLastFix(last, current) == current

\* The depth check placed before the empty-plan break.
LoopDecisionCeilingFirst(last, d, max) ==
    IF d > max THEN "iteration-ceiling"
    ELSE IF last = EmptyMapping THEN "converged"
    ELSE "continue"

\* The head of main's loop: the empty-plan break comes before the depth check.
LoopDecision(last, d, max) ==
    IF last = EmptyMapping THEN "converged"
    ELSE IF d > max THEN "iteration-ceiling"
    ELSE "continue"

\* The loop forgets to count the follow-up.
NextDepthStuck(d) == d

\* `depth += 1`
NextDepth(d) == d + 1

\* The process ends: main returns Err (exit status 1), a panic unwinds, or
\* process::exit is called.
Stop(how) ==
    /\ pc' = "done"
    /\ step' = "idle"
    /\ outcome' = how

\* Undecodable lines skipped instead of failing the cycle.
DecodesLeniently(lines) == TRUE

\* `.map(|l| serde_json::from_str(l)).collect::<Result<_, _>>()?`: Ok when
\* every line decodes.
Decodes(lines) == \A i \in 1..Len(lines) : lines[i].reason # "undecodable"

\* apply_once up to `let workspace_root = workspace_root()?`: run the build,
\* which prints one of outs, decode every line, collect the anchors.
Run(outs) ==
    /\ pc \in {"initial", "followup"}
    /\ step = "check"
    /\ \E lines \in outs :
          /\ stdout' = lines
          /\ cycles' = cycles + 1
          /\ IF ~Decodes(lines)
             THEN /\ Stop("decode-error")
                  /\ UNCHANGED <<file_mapping, todo>>
             ELSE /\ file_mapping' = FileMappingOf(RelevantSpans(lines))
                  /\ todo' = KeysInOrder(file_mapping')
                  /\ step' = "files"
                  /\ UNCHANGED <<pc, outcome>>
    /\ UNCHANGED <<opts, main_vars, patch_vars, disk, plans, io>>

RunCheck == Run(Outputs)

\* An entry of the log of file operations: the cycle, the operation ("read",
\* "write", or "read-failed", "write-failed" for a call that returned Err),
\* the file name as the plan has it, and the text read or handed to write.
IoEvent(c, o, f, t) == [cycle |-> c, op |-> o, name |-> f, text |-> t]

\* The Err of a file operation dropped, as with `.ok()`.
TryIgnoring(ok) == TRUE

\* The `?` after fs::read_to_string and fs::write: apply_once goes on when
\* the call returned Ok and returns the Err otherwise.
Try(ok) == ok

\* The head of the loop over file_mapping: the safe-directory check and
\* read_to_string, which may fail.
NextFile ==
    /\ step = "files"
    /\ todo # <<>>
    /\ LET filename == Joined(Head(todo))
       IN  IF ~InSafeDirectory(filename, directory)
           THEN /\ Stop("unsafe-path")
                /\ UNCHANGED <<patch_vars, io>>
           ELSE \E ok \in BOOLEAN :
                  /\ io' = Append(io,
                         IF ok
                         THEN IoEvent(cycles, "read", Head(todo),
                                      disk[Resolve(filename)])
                         ELSE IoEvent(cycles, "read-failed", Head(todo), <<>>))
                  /\ IF Try(ok)
                     THEN /\ original' = disk[Resolve(filename)]
                          /\ content' = original'
                          /\ pieces' = <<>>
                          /\ k' = Len(file_mapping[Head(todo)])
                          /\ step' = "anchors"
                          /\ UNCHANGED <<pc, outcome, modified_content>>
                     ELSE /\ Stop("io-error")
                          /\ UNCHANGED patch_vars
    /\ UNCHANGED <<opts, stdout, main_vars, file_mapping, todo, disk, cycles, plans>>

\* One iteration of `for cat in spans.iter().copied().rev()`.
PatchAnchor ==
    /\ step = "anchors"
    /\ k > 0
    /\ LET r == PatchAnchorStep(content, pieces, file_mapping[Head(todo)][k], suffix)
       IN  IF r.panic
           THEN /\ Stop("panic")
                /\ UNCHANGED <<content, pieces, k>>
           ELSE /\ content' = r.content
                /\ pieces' = r.pieces
                /\ k' = k - 1
                /\ UNCHANGED <<pc, step, outcome>>
    /\ UNCHANGED <<opts, stdout, main_vars, file_mapping, todo, original,
                   modified_content, disk, cycles, plans, io>>

\* What a file holds after fs::write(path, text) on a file holding old: the
\* text when the call returns Ok; when it returns Err, the old bytes (the
\* file could not be opened) or none (it was truncated and not written).
AfterWrite(ok, old, text) == IF ok THEN {text} ELSE {old, <<>>}

\* After the loop over the anchors: push the cursor, join the pieces, write
\* the file unless this is a dry run.  fs::write may fail.
WriteFile ==
    /\ step = "anchors"
    /\ k = 0
    /\ pieces' = Append(pieces, content)
    /\ modified_content' = CollectRev(pieces')
    /\ IF ~WritesFile(dry_run)
       THEN /\ step' = "files"
            /\ todo' = Tail(todo)
            /\ UNCHANGED <<pc, outcome, disk, io>>
       ELSE \E ok \in BOOLEAN :
              LET path == Resolve(Joined(Head(todo)))
              IN  /\ \E held \in AfterWrite(ok, disk[path], modified_content') :
                        disk' = [disk EXCEPT ![path] = held]
                  /\ io' = Append(io,
                         IoEvent(cycles, IF ok THEN "write" ELSE "write-failed",
                                 Head(todo), modified_content'))
                  /\ IF Try(ok)
                     THEN /\ step' = "files"
                          /\ todo' = Tail(todo)
                          /\ UNCHANGED <<pc, outcome>>
                     ELSE /\ Stop("io-error")
                          /\ UNCHANGED todo
    /\ UNCHANGED <<opts, stdout, main_vars, file_mapping, original, content, k, cycles,
                   plans>>

\* apply_once returns Ok(file_mapping) to main: to the initial call, followed
\* by the dry-run return, or to the follow-up call in the loop, followed by
\* the comparison with last_fix.
Return ==
    /\ step = "files"
    /\ todo = <<>>
    /\ IF pc = "initial"
       THEN /\ last_fix' = file_mapping
            /\ depth' = depth
            /\ IF dry_run
               THEN Stop("dry-run")
               ELSE /\ pc' = "loop"
                    /\ step' = "idle"
                    /\ UNCHANGED outcome
       ELSE IF SameFix(last_fix, file_mapping)
            THEN /\ Stop("no-progress")
                 /\ UNCHANGED main_vars
            ELSE /\ last_fix' = NextLastFix(last_fix, file_mapping)
                 /\ depth' = NextDepth(depth)
                 /\ pc' = "loop"
                 /\ step' = "idle"
                 /\ UNCHANGED outcome
    /\ plans' = Append(plans, file_mapping)
    /\ UNCHANGED <<opts, stdout, file_mapping, todo, patch_vars, disk, cycles, io>>

\* The head of main's loop: the empty-plan break, then the depth check.
LoopHead ==
    /\ pc = "loop"
    /\ LET d == LoopDecision(last_fix, depth, max_iterations)
       IN  IF d = "continue"
           THEN /\ pc' = "followup"
                /\ step' = "check"
                /\ UNCHANGED outcome
           ELSE Stop(d)
    /\ UNCHANGED <<opts, stdout, main_vars, file_mapping, todo, patch_vars, disk,
                   cycles, plans, io>>

Next == RunCheck \/ NextFile \/ PatchAnchor \/ WriteFile \/ Return \/ LoopHead

Spec == Init /\ [][Next]_vars

\* main is one thread that runs until the process ends.
FairSpec == Spec /\ WF_vars(Next)

\* ------------------------------------------------- the patcher on its own

\* The pieces a patched file's text is made of.
Tokens == {Foo, ErrorMarker, ContextMarker, Snafu, Pipes}

TokenLists == UNION {[1..n -> Tokens] : n \in 0..MaxTokens}

\* The offsets at which the tokens of ts end.
RECURSIVE Boundaries(_)
Boundaries(ts) ==
    IF ts = <<>> THEN {0}
    ELSE {0} \cup {b + Len(Head(ts)) : b \in Boundaries(Tail(ts))}

\* The offsets an anchor may carry: each token boundary, the byte before it,
\* and one byte past the end of the text.
Offsets(ts) ==
    {o \in UNION {{b - 1, b} : b \in Boundaries(ts)} : o >= 0}
        \cup {Len(Concat(ts)) + 1}

\* The anchors over a text: either category, ending at any offset, one byte
\* long or empty.
AnchorsOver(ts) ==
    UNION {{Rename(s, e), WithArg(s, e)} :
              <<s, e>> \in {<<s, e>> \in Offsets(ts) \X Offsets(ts) :
                               s <= e /\ e - s <= 1}}

\* The order apply_once leaves one file's anchors in: ascending by
\* (start, end, is_primary), a rename's span being primary and a closure
\* argument's not, and no two equal.  A file in the mapping has at least one
\* anchor.
AnchorLess(a, b) ==
    SpanLess(Span(a.start, a.end, "main.rs", a.kind = "ContextSelectorRename"),
             Span(b.start, b.end, "main.rs", b.kind = "ContextSelectorRename"))

AnchorLists(ts) ==
    {l \in UNION {[1..n -> AnchorsOver(ts)] : n \in 1..MaxAnchors} :
        \A i \in 1..Len(l) - 1 : AnchorLess(l[i], l[i + 1])}

\* Lines from which apply_once collects the anchors l for main.rs: one
\* message for each, a rename from the primary span of an E0425, a closure
\* argument from the secondary span of an E0593.
LinesFor(l) ==
    [i \in 1..Len(l) |->
        IF l[i].kind = "ContextSelectorRename"
        THEN CompilerMessage("E0425",
                 <<Span(l[i].start, l[i].end, "main.rs", TRUE)>>)
        ELSE CompilerMessage("E0593",
                 <<Span(l[i].start, l[i].end, "main.rs", FALSE)>>)]

\* apply_once has just read main.rs, whose text and anchors are any of the
\* above.
PatchInit ==
    /\ dry_run = FALSE
    /\ max_iterations = 0
    /\ directory = WorkspaceRoot
    /\ suffix \in Suffixes
    /\ pc = "initial"
    /\ step = "anchors"
    /\ depth = 0
    /\ last_fix = EmptyMapping
    /\ outcome = "running"
    /\ \E ts \in TokenLists :
          /\ original = Concat(ts)
          /\ \E l \in AnchorLists(ts) :
                /\ stdout = LinesFor(l)
                /\ file_mapping = FileMappingOf(RelevantSpans(stdout))
    /\ todo = <<"main.rs">>
    /\ content = original
    /\ pieces = <<>>
    /\ k = Len(file_mapping["main.rs"])
    /\ modified_content = <<>>
    /\ disk = [InitialDisk EXCEPT ![Resolve(Joined("main.rs"))] = original]
    /\ cycles = 1
    /\ plans = <<>>
    /\ io = <<IoEvent(1, "read", "main.rs", original)>>

PatchNext == PatchAnchor \/ WriteFile

PatchSpec == PatchInit /\ [][PatchNext]_vars

\* ----------------------------------------------- the collector on its own

\* The byte ranges the spans of a cycle's messages carry: two with the same
\* start, one inside another.
CollectRanges == {<<0, 1>>, <<0, 3>>, <<1, 2>>}

CollectSpans ==
    {Span(r[1], r[2], f, p) :
        r \in CollectRanges, f \in {"main.rs", "../evil.rs"}, p \in BOOLEAN}

\* A code of either allow-list and one of neither.
CollectCodes == {"E0425", "E0593", "E0308"}

\* The lines of a cycle's output: messages with one span, messages with a
\* primary span and a second span, a message without a code, a line that is
\* not a compiler message, and a line that does not decode.
CollectPool ==
    {CompilerMessage(c, <<sp>>) : c \in CollectCodes, sp \in CollectSpans}
        \cup {CompilerMessage(c, <<Span(0, 1, "main.rs", TRUE), sp>>) :
                 c \in CollectCodes, sp \in CollectSpans}
        \cup {CompilerMessage(NoCode, <<Span(0, 1, "main.rs", TRUE)>>),
              OtherLine, BadLine}

CollectOutputs == UNION {[1..n -> CollectPool] : n \in 0..MaxLines}

\* The first call of apply_once in a run with the default options.
CollectInit ==
    /\ Init
    /\ ~dry_run
    /\ max_iterations = 0

\* apply_once up to the loop over file_mapping, for any of these outputs.
Collect == Run(CollectOutputs)

CollectNext == Collect

CollectSpec == CollectInit /\ [][CollectNext]_vars

\* ------------------------------------------------------ convergence loop

\* The cycles that returned an EditPlan to main.
Returned == 1..Len(plans)

\* C1: in a run that is not a dry run, a cycle that returns the empty plan is
\* the last cycle, whatever depth is: no further cargo check is run, main is
\* at the head of its loop or has ended, and it ends with success.
C1_EmptyPlanStops ==
    ~dry_run =>
        \A i \in Returned :
            plans[i] = EmptyMapping =>
                /\ i = Len(plans)
                /\ cycles = i
                /\ pc \in {"loop", "done"}
                /\ pc = "done" => outcome = "converged"

\* plan1, plan2, {} has ended with success after 3 cycles, with depth above
\* the maximum.
C1_Witness ==
    /\ ~dry_run
    /\ outcome = "converged"
    /\ Len(plans) = 3
    /\ cycles = 3
    /\ plans[1] # plans[2]
    /\ plans[3] = EmptyMapping
    /\ depth > max_iterations

\* C2: in a run that is not a dry run, a cycle whose plan equals the
\* non-empty plan of the cycle before it is the last one, and the run has
\* ended with the no-progress failure as soon as that cycle has returned.
C2_RepeatedPlanFails ==
    ~dry_run =>
        \A i \in Returned :
            (i > 1 /\ plans[i] = plans[i - 1] /\ plans[i] # EmptyMapping) =>
                /\ i = Len(plans)
                /\ cycles = i
                /\ pc = "done"
                /\ outcome = "no-progress"

\* plan1, plan1 has ended with no-progress after 2 cycles, at the smallest
\* maximum.
C2_Witness ==
    /\ ~dry_run
    /\ max_iterations = 0
    /\ outcome = "no-progress"
    /\ cycles = 2
    /\ Len(plans) = 2
    /\ plans[1] = plans[2]
    /\ plans[1] # EmptyMapping

\* C3: a run that ends with the iteration-ceiling failure, whose message
\* names max_iterations attempts, has run cargo check at most max_iterations
\* times.
C3_CeilingWithinAttempts ==
    outcome = "iteration-ceiling" => cycles <= max_iterations

\* What the code does at the ceiling: max_iterations + 2 cycles have run.
C3_CeilingAfterTwoMore ==
    outcome = "iteration-ceiling" =>
        /\ cycles = max_iterations + 2
        /\ depth = max_iterations + 1

\* The three ends of the convergence loop.
LoopEnds == {"converged", "no-progress", "iteration-ceiling"}

\* A cycle that did not return a plan: apply_once returned Err, or panicked.
CycleFailed == outcome \in {"decode-error", "unsafe-path", "io-error", "panic"}

\* No returned plan is empty and no two consecutive ones are equal.
NeverEmptyNeverRepeats ==
    /\ \A i \in Returned : plans[i] # EmptyMapping
    /\ \A i \in Returned : i > 1 => plans[i] # plans[i - 1]

\* C4: a run that is not a dry run and in which every cycle returns a plan
\* ends in one of the three ends of the loop, after at most
\* max_iterations + 2 cycles; it keeps that end; and if no plan was empty
\* and none repeated the one before it, the end is the iteration ceiling.
C4_RunEnds ==
    /\ [](~dry_run => cycles <= max_iterations + 2)
    /\ []((~dry_run /\ pc = "done" /\ ~CycleFailed) =>
            /\ outcome \in LoopEnds
            /\ NeverEmptyNeverRepeats => outcome = "iteration-ceiling")
    /\ [][outcome # "running" => outcome' = outcome]_vars
    /\ <>(dry_run \/ CycleFailed \/ outcome \in LoopEnds)

\* Plans that were never empty and never repeated have ended at the ceiling.
C4_Witness ==
    /\ ~dry_run
    /\ outcome = "iteration-ceiling"
    /\ NeverEmptyNeverRepeats
    /\ Len(plans) = max_iterations + 2

\* A file write is in the log.
SomeWrite == \E i \in 1..Len(io) : io[i].op = "write"

\* C5: a dry run runs cargo check once; when that cycle has returned its
\* plan, empty or not, the run has ended; and it writes no file, so that the
\* disk holds what it held before the run.
C5_DryRunOneCycleNoWrite ==
    dry_run =>
        /\ cycles <= 1
        /\ Len(plans) <= 1
        /\ plans # <<>> => (pc = "done" /\ outcome = "dry-run" /\ cycles = 1)
        /\ pc = "done" => cycles = 1
        /\ ~SomeWrite
        /\ disk = InitialDisk

\* A dry run has ended after a cycle whose plan was not empty and whose
\* patch of main.rs differs from the file.
C5_Witness ==
    /\ dry_run
    /\ outcome = "dry-run"
    /\ plans # <<>>
    /\ plans[1] # EmptyMapping
    /\ modified_content # original
    /\ disk = InitialDisk

\* ---------------------------------------------------------- safe directory

\* The file a span names lies outside the safe directory.
OutsideSafeDirectory(f) == ~StartsWith(Resolve(Joined(f)), Resolve(directory))

\* The reads and writes of the current cycle.
ThisCycle == {i \in 1..Len(io) : io[i].cycle = cycles}

\* C6: no file outside the safe directory has been written; and when
\* apply_once has rejected a file, the run has ended in that cycle, and
\* neither that file nor any file after it in the plan has been read or
\* written in the cycle.
C6_NoWriteOutsideSafeDirectory ==
    /\ \A i \in 1..Len(io) :
          io[i].op = "write" => ~OutsideSafeDirectory(io[i].name)
    /\ outcome = "unsafe-path" =>
          /\ pc = "done"
          /\ todo # <<>>
          /\ OutsideSafeDirectory(Head(todo))
          /\ \A i \in ThisCycle : \A j \in 1..Len(todo) : io[i].name # todo[j]

\* What the check does guarantee: every file read or written has a joined
\* path of which the safe directory is a prefix, component by component,
\* and a rejected file and the files after it are not touched.
C6_NoWriteOutsideByComponents ==
    /\ \A i \in 1..Len(io) : StartsWith(Joined(io[i].name), directory)
    /\ outcome = "unsafe-path" =>
          /\ pc = "done"
          /\ todo # <<>>
          /\ ~StartsWith(Joined(Head(todo)), directory)
          /\ \A i \in ThisCycle : \A j \in 1..Len(todo) : io[i].name # todo[j]

\* ------------------------------------------------------------- the patcher

\* The anchors of the file being patched.
Anchors == file_mapping["main.rs"]

\* The patcher has produced the file's new text and written it.
Patched == step = "files" /\ todo = <<>>

\* Anchors sorted ascending, no range reaching into the next one.
NonOverlapping(l) ==
    \A i \in 1..Len(l) : \A j \in 1..Len(l) : i < j => l[i].end <= l[j].start

\* Every anchor ends inside the text, and a closure argument's range is not
\* empty, so that the byte before its end is its own.
InBounds(o, l) ==
    \A i \in 1..Len(l) :
        /\ l[i].end <= Len(o)
        /\ l[i].kind = "WithContextArgument" => l[i].start < l[i].end

\* The legacy markers, in priority order.
LegacyMarkers == <<ErrorMarker, ContextMarker>>

\* h without one trailing occurrence of each marker of ms, taken in order.
RECURSIVE StripInOrder(_, _)
StripInOrder(h, ms) ==
    IF ms = <<>> THEN h
    ELSE StripInOrder(IF EndsWith(h, Head(ms))
                      THEN Take(h, Len(h) - Len(Head(ms)))
                      ELSE h,
                      Tail(ms))

\* The edit of one anchor, computed against the original text o alone: the
\* rename applies unless the text up to its end has the suffix already.
RefApplies(o, a, suf) ==
    a.kind = "ContextSelectorRename" /\ ~EndsWith(Take(o, a.end), suf)

\* The bytes (counted from 1) the edit removes: the stripped markers.
RefRemoved(o, a, suf) ==
    IF RefApplies(o, a, suf)
    THEN (Len(StripInOrder(Take(o, a.end), LegacyMarkers)) + 1)..a.end
    ELSE {}

\* The offset the edit inserts at, and what it inserts.
RefOffset(a) == IF a.kind = "ContextSelectorRename" THEN a.end ELSE a.end - 1

RefInserted(o, a, suf) ==
    IF a.kind = "WithContextArgument" THEN Placeholder
    ELSE IF RefApplies(o, a, suf) THEN suf
    ELSE <<>>

\* All the edits combined: at each offset of o, what the anchors insert
\* there, in their order, then the byte at that offset unless it is removed.
Reference(o, l, suf) ==
    LET removed == UNION {RefRemoved(o, l[i], suf) : i \in 1..Len(l)}
        insertsAt(q) ==
            Concat([i \in 1..Len(l) |->
                      IF RefOffset(l[i]) = q THEN RefInserted(o, l[i], suf)
                      ELSE <<>>])
    IN  Concat([p \in 1..Len(o) + 1 |->
                  insertsAt(p - 1) \o
                  (IF p <= Len(o) /\ p \notin removed THEN <<o[p]>> ELSE <<>>)])

\* C7: for anchors that are sorted, do not overlap and end inside the text,
\* the patcher yields a result, and it is the reference's.
C7_ReverseOrderMatchesReference ==
    (NonOverlapping(Anchors) /\ InBounds(original, Anchors)) =>
        /\ outcome # "panic"
        /\ Patched => modified_content = Reference(original, Anchors, suffix)

\* What holds of the code: a result the patcher does yield is the
\* reference's.
C7_ResultMatchesReference ==
    (NonOverlapping(Anchors) /\ InBounds(original, Anchors) /\ Patched) =>
        modified_content = Reference(original, Anchors, suffix)

\* a is b with bytes left out.
RECURSIVE IsSubsequence(_, _)
IsSubsequence(a, b) ==
    IF a = <<>> THEN TRUE
    ELSE IF b = <<>> THEN FALSE
    ELSE IF Head(a) = Head(b) THEN IsSubsequence(Tail(a), Tail(b))
    ELSE IsSubsequence(a, Tail(b))

\* How often byte c occurs in t.
Count(t, c) == Cardinality({i \in 1..Len(t) : t[i] = c})

Bytes(t) == {t[i] : i \in 1..Len(t)}

\* The bytes of o outside every stripped marker, in order.
Kept(o, l, suf) ==
    LET removed == UNION {RefRemoved(o, l[i], suf) : i \in 1..Len(l)}
    IN  Concat([p \in 1..Len(o) |-> IF p \in removed THEN <<>> ELSE <<o[p]>>])

\* The rename anchors that are applied, and the closure-argument anchors.
AppliedRenames(o, l, suf) ==
    Cardinality({i \in 1..Len(l) : RefApplies(o, l[i], suf)})

ArgumentAnchors(l) ==
    Cardinality({i \in 1..Len(l) : l[i].kind = "WithContextArgument"})

\* C8: for anchors that do not overlap, the patched text holds every byte of
\* the input outside the stripped markers, in the input's order, and besides
\* them only one copy of the suffix for each applied rename and one
\* placeholder for each closure argument.
C8_BytesOutsideEditsKept ==
    (NonOverlapping(Anchors) /\ Patched) =>
        LET kept == Kept(original, Anchors, suffix)
            n == AppliedRenames(original, Anchors, suffix)
            m == ArgumentAnchors(Anchors)
        IN  /\ IsSubsequence(kept, modified_content)
            /\ Len(modified_content) = Len(kept) + n * Len(suffix) + m
            /\ \A c \in Bytes(modified_content) \cup Bytes(original) :
                  Count(modified_content, c) =
                      Count(kept, c) + n * Count(suffix, c)
                          + m * Count(Placeholder, c)

\* A file with an applied rename that strips a marker and with a closure
\* argument has been patched.
C8_Witness ==
    /\ Patched
    /\ NonOverlapping(Anchors)
    /\ Len(Anchors) = 2
    /\ ArgumentAnchors(Anchors) = 1
    /\ AppliedRenames(original, Anchors, suffix) = 1
    /\ Len(Kept(original, Anchors, suffix)) < Len(original)
    /\ Len(Kept(original, Anchors, suffix)) > 0

\* Every anchor is a rename whose text up to its end has the suffix already.
AllAlreadyApplied(o, l, suf) ==
    \A i \in 1..Len(l) :
        /\ l[i].kind = "ContextSelectorRename"
        /\ l[i].end <= Len(o)
        /\ EndsWith(Take(o, l[i].end), suf)

\* The patcher is at a rename anchor whose head has the suffix already.
AtAppliedRename ==
    /\ step = "anchors"
    /\ k > 0
    /\ Anchors[k].kind = "ContextSelectorRename"
    /\ Anchors[k].end <= Len(content)
    /\ EndsWith(Take(content, Anchors[k].end), suffix)

OneRename ==
    /\ Len(Anchors) = 1
    /\ Anchors[1].kind = "ContextSelectorRename"
    /\ Anchors[1].end <= Len(original)
    /\ ~EndsWith(Take(original, Anchors[1].end), suffix)

RenameHead == Take(original, Anchors[1].end)

RenameTail == Drop(original, Anchors[1].end)

\* The patched text up to the inserted suffix.
BeforeSuffix ==
    Take(modified_content, Len(modified_content) - Len(RenameTail) - Len(suffix))

EndsWithMarker(h) == EndsWith(h, ErrorMarker) \/ EndsWith(h, ContextMarker)

\* h ends with two legacy markers in a row.
EndsWithTwoMarkers(h) ==
    \E i \in 1..Len(LegacyMarkers) :
        /\ EndsWith(h, LegacyMarkers[i])
        /\ EndsWithMarker(Take(h, Len(h) - Len(LegacyMarkers[i])))

\* The patch of one rename: strip(head), the suffix, the tail.
RenameSplice ==
    /\ outcome # "panic"
    /\ Patched =>
          modified_content =
              StripInOrder(RenameHead, LegacyMarkers) \o suffix \o RenameTail

ArgumentsOnly(o, l) ==
    /\ l # <<>>
    /\ \A i \in 1..Len(l) :
          /\ l[i].kind = "WithContextArgument"
          /\ 1 <= l[i].end /\ l[i].end <= Len(o)
    /\ \A i \in 1..Len(l) - 1 : l[i].end <= l[i + 1].end

UndecodableLine == \E i \in 1..Len(stdout) : stdout[i].reason = "undecodable"

\* C12: when a line of a cycle's output does not decode, the run has ended
\* with the decode error in that cycle: the cycle has read and written no
\* file and returned no plan; and after that error nothing changes any
\* more, so that no further cycle runs.
C12_DecodeErrorAborts ==
    /\ [](UndecodableLine =>
            /\ pc = "done"
            /\ outcome = "decode-error"
            /\ ThisCycle = {}
            /\ Len(plans) = cycles - 1)
    /\ [][outcome = "decode-error" => UNCHANGED vars]_vars

\* The second cycle's output had an undecodable line after a line with an
\* anchor; the first cycle had patched and written main.rs.
C12_Witness ==
    /\ UndecodableLine
    /\ Len(stdout) = 2
    /\ LineSpans(stdout[1]) # {}
    /\ outcome = "decode-error"
    /\ cycles = 2
    /\ Len(plans) = 1
    /\ SomeWrite

\* The file operations that returned Err.
FailedOps == {i \in 1..Len(io) : io[i].op \in {"read-failed", "write-failed"}}

\* The files of the current plan that come before the one apply_once is at.
FilesDone ==
    {f \in DOMAIN file_mapping : \A j \in 1..Len(todo) : todo[j] # f}

\* The files this cycle has written.
WrittenThisCycle == {io[j].name : j \in {j \in ThisCycle : io[j].op = "write"}}

\* C13: when a read or a write of a file has failed, the run has ended with
\* that error in that cycle, which returned no plan; the failed operation is
\* the last one in the log, so that no file after the failing one has been
\* read or written; the files before it in the plan have been written, and
\* every file the cycle has written holds the text written to it; and after
\* the error nothing changes any more, so that no further cycle runs.
C13_IoErrorAborts ==
    /\ [](\A i \in FailedOps :
            /\ i = Len(io)
            /\ pc = "done"
            /\ outcome = "io-error"
            /\ io[i].cycle = cycles
            /\ Len(plans) = cycles - 1
            /\ todo # <<>> /\ Head(todo) = io[i].name
            /\ \A j \in ThisCycle : \A n \in 2..Len(todo) :
                  io[j].name # todo[n]
            /\ ~dry_run => WrittenThisCycle = FilesDone
            /\ \A j \in ThisCycle :
                  io[j].op = "write" =>
                      disk[Resolve(Joined(io[j].name))] = io[j].text)
    /\ [][outcome = "io-error" => UNCHANGED vars]_vars

\* The write of the second file of a plan has failed after the first file
\* was patched and written with a new text.
C13_Witness ==
    /\ outcome = "io-error"
    /\ io[Len(io)].op = "write-failed"
    /\ Len(todo) = 1
    /\ Cardinality(FilesDone) = 1
    /\ \E f \in FilesDone :
          /\ f \in WrittenThisCycle
          /\ disk[Resolve(Joined(f))] # InitialDisk[Resolve(Joined(f))]

\* --------------------------------------------------------------- EditPlan

\* Span sp of line l qualifies: l is a compiler message whose code is in the
\* rename allow-list and sp is primary, or whose code is in the argument
\* allow-list and sp is not primary.
Qualifies(l, sp) ==
    /\ l.reason = "compiler-message"
    /\ \/ l.code \in RenameCodes /\ sp.is_primary
       \/ l.code \in ArgumentCodes /\ ~sp.is_primary

\* The spans of line l.
SpansOf(l) == {l.spans[j] : j \in 1..Len(l.spans)}

\* The distinct (byte_start, byte_end, file_name, is_primary) tuples of the
\* qualifying spans of the last output.
QualifyingSpans ==
    UNION {{sp \in SpansOf(stdout[i]) : Qualifies(stdout[i], sp)} :
              i \in 1..Len(stdout)}

\* apply_once has built file_mapping from the last output.
Collected == cycles > 0 /\ ~UndecodableLine

\* Ascending by range start, ties by range end.
SortedByStart(l) ==
    \A i \in 1..Len(l) : \A j \in 1..Len(l) :
        i < j =>
            \/ l[i].start < l[j].start
            \/ l[i].start = l[j].start /\ l[i].end <= l[j].end

\* C14: in the plan apply_once builds from an output, each file's anchors
\* are sorted ascending by start, ties by end; a file has as
\* many anchors as there are distinct qualifying span tuples naming it, so
\* that a span reported twice yields one anchor; no file has an empty list;
\* and every anchor has the range of a qualifying span that names the file
\* it is listed under.
C14_PlanSortedAndDeduplicated ==
    Collected =>
        /\ DOMAIN file_mapping = {sp.file_name : sp \in QualifyingSpans}
        /\ \A f \in DOMAIN file_mapping :
              /\ SortedByStart(file_mapping[f])
              /\ Len(file_mapping[f]) =
                     Cardinality({sp \in QualifyingSpans : sp.file_name = f})
              /\ \A i \in 1..Len(file_mapping[f]) :
                    \E sp \in QualifyingSpans :
                        /\ sp.file_name = f
                        /\ sp.byte_start = file_mapping[f][i].start
                        /\ sp.byte_end = file_mapping[f][i].end

\* Two lines reported the same span of main.rs and a third span starts
\* before it: main.rs has two anchors, in ascending order.
C14_Witness ==
    /\ Collected
    /\ Len(stdout) = 2
    /\ \E sp \in QualifyingSpans :
          /\ sp.file_name = "main.rs"
          /\ sp \in SpansOf(stdout[1]) /\ Qualifies(stdout[1], sp)
          /\ sp \in SpansOf(stdout[2]) /\ Qualifies(stdout[2], sp)
    /\ "main.rs" \in DOMAIN file_mapping
    /\ Len(file_mapping["main.rs"]) = 2
    /\ file_mapping["main.rs"][1].start < file_mapping["main.rs"][2].start

\* The category a qualifying span of line l gets.
KindOf(l) ==
    IF l.code \in RenameCodes THEN "ContextSelectorRename"
    ELSE "WithContextArgument"

\* Anchor a, listed under file f, comes from span sp of line l.
ComesFrom(a, f, l, sp) ==
    /\ l.reason = "compiler-message"
    /\ l.code # NoCode
    /\ sp \in SpansOf(l)
    /\ sp.file_name = f
    /\ sp.byte_start = a.start /\ sp.byte_end = a.end
    /\ \/ a.kind = "ContextSelectorRename"
             /\ l.code \in RenameCodes /\ sp.is_primary
       \/ a.kind = "WithContextArgument"
             /\ l.code \in ArgumentCodes /\ ~sp.is_primary

\* C15: every anchor of the plan comes from a span of a compiler message
\* with a code: a rename from a primary span under a code of the rename
\* allow-list, a closure argument from a non-primary span under a code of
\* the argument allow-list; every qualifying span of every message has its
\* anchor, of its category, under its file; and an output in which no
\* message has a code of either list gives the empty plan.
C15_AnchorsOnlyFromAllowedCodes ==
    Collected =>
        /\ \A f \in DOMAIN file_mapping : \A i \in 1..Len(file_mapping[f]) :
              \E n \in 1..Len(stdout) : \E sp \in SpansOf(stdout[n]) :
                  ComesFrom(file_mapping[f][i], f, stdout[n], sp)
        /\ \A n \in 1..Len(stdout) : \A sp \in SpansOf(stdout[n]) :
              Qualifies(stdout[n], sp) =>
                  /\ sp.file_name \in DOMAIN file_mapping
                  /\ \E i \in 1..Len(file_mapping[sp.file_name]) :
                        file_mapping[sp.file_name][i] =
                            [kind |-> KindOf(stdout[n]),
                             start |-> sp.byte_start, end |-> sp.byte_end]
        /\ (\A n \in 1..Len(stdout) :
                \/ stdout[n].reason # "compiler-message"
                \/ stdout[n].code \notin RenameCodes \cup ArgumentCodes) =>
              file_mapping = EmptyMapping

\* An E0593 message with a primary and a secondary span and an E0308
\* message gave one anchor, the closure argument of the secondary span.
C15_Witness ==
    /\ Collected
    /\ Len(stdout) = 2
    /\ stdout[1].code = "E0593" /\ Len(stdout[1].spans) = 2
    /\ ~stdout[1].spans[2].is_primary
    /\ stdout[2].code = "E0308"
    /\ DOMAIN file_mapping = {stdout[1].spans[2].file_name}
    /\ file_mapping[stdout[1].spans[2].file_name] =
          <<WithArg(stdout[1].spans[2].byte_start, stdout[1].spans[2].byte_end)>>

\* ------------------------------------------------------------- the cursor

\* p is a prefix of t.
IsPrefix(p, t) == Len(p) <= Len(t) /\ Take(t, Len(p)) = p

\* The patcher is about to split the cursor for the anchor Anchors[k].
AtAnchor == step = "anchors" /\ k > 0 /\ outcome = "running"

\* C16: while a file is patched whose anchors are sorted, do not overlap and
\* end inside the text, the cursor is a prefix of the original text, and the
\* offset the next anchor splits at is at most the cursor's length.
C16_SplitWithinCursor ==
    (NonOverlapping(Anchors) /\ InBounds(original, Anchors)) =>
        /\ IsPrefix(content, original)
        /\ AtAnchor => SplitPoint(Anchors[k]) <= Len(content)
        /\ outcome # "panic"

\* What holds of the code: the cursor is a prefix of the original text, for
\* any anchors.
C16_CursorIsPrefix == IsPrefix(content, original)

\* ------------------------------------------------------ skipped renames

\* The text cycle n read from file f.
TextRead(n, f) ==
    {io[j].text : j \in {j \in 1..Len(io) :
        io[j].cycle = n /\ io[j].op = "read" /\ io[j].name = f}}

\* The text cycle n wrote to file f.
TextWritten(n, f) ==
    {io[j].text : j \in {j \in 1..Len(io) :
        io[j].cycle = n /\ io[j].op = "write" /\ io[j].name = f}}

\* Cycle n returned a plan with anchors, every one of which the patcher
\* skipped: a rename whose head had the suffix already.
SkipCycle(n) ==
    /\ plans[n] # EmptyMapping
    /\ \A f \in DOMAIN plans[n] :
          /\ TextRead(n, f) # {}
          /\ \A t \in TextRead(n, f) : AllAlreadyApplied(t, plans[n][f], suffix)

\* C17: in a run that is not a dry run, a cycle all of whose anchors were
\* skipped has returned them all in its plan: the plan has an anchor for
\* every qualifying span of the cycle's output; each file of the plan has
\* been written with the bytes read from it; the run has not ended as
\* converged after that cycle; and when the cycle before it was such a cycle
\* with the same plan, the run has ended with the no-progress failure.
C17_SkippedAnchorsStayInPlan ==
    ~dry_run =>
        \A n \in Returned :
            SkipCycle(n) =>
                /\ \A f \in DOMAIN plans[n] :
                      /\ plans[n][f] # <<>>
                      /\ TextWritten(n, f) = TextRead(n, f)
                /\ n = cycles =>
                      \A sp \in QualifyingSpans :
                          /\ sp.file_name \in DOMAIN plans[n]
                          /\ \E i \in 1..Len(plans[n][sp.file_name]) :
                                /\ plans[n][sp.file_name][i].start = sp.byte_start
                                /\ plans[n][sp.file_name][i].end = sp.byte_end
                /\ n = Len(plans) => outcome # "converged"
                /\ (n > 1 /\ SkipCycle(n - 1) /\ plans[n] = plans[n - 1]) =>
                      /\ n = Len(plans)
                      /\ pc = "done"
                      /\ outcome = "no-progress"

\* After a cycle that patched main.rs, two cycles with the same rename, both
\* skipped, have ended the run with no-progress; the file is as the first
\* cycle left it.
C17_Witness ==
    /\ ~dry_run
    /\ Len(plans) = 3
    /\ ~SkipCycle(1)
    /\ SkipCycle(2)
    /\ SkipCycle(3)
    /\ plans[2] = plans[3]
    /\ outcome = "no-progress"
    /\ TextWritten(3, "main.rs") = TextWritten(1, "main.rs")

====
